---- MODULE Spec2Model ----
(***************************************************************************)
(* DownOnSpot: reference parsing and dispatch (src/spotify.rs), catalog    *)
(* expansion (src/spotify.rs) and the ID3 tag writer (src/tag/id3.rs).     *)
(*                                                                         *)
(* Text is modelled as a sequence of one-character strings, so that        *)
(* splitting, prefix tests, formatting and parsing are computed the way    *)
(* the code computes them.                                                 *)
(***************************************************************************)
EXTENDS Integers, Sequences, FiniteSets, TLC

VARIABLES
    \* --- reference parsing and dispatch (Spotify::parse_uri, resolve_uri)
    input,      \* the user-supplied string
    url,        \* what Url::parse(input) gives: a URL, an error, or a panic
    pc,         \* "input" | "parsed" | "rejected" | "parse_panicked" | "awaiting"
                \* | "done" | "panicked"
    parsed,     \* Result<String, SpotifyError> of parse_uri
    calls,      \* remote fetches issued by resolve_uri, in order
    outcome,    \* Result<SpotifyItem, SpotifyError> of resolve_uri
    \* --- catalog expansion (full_playlist, full_album, full_artist)
    xop,        \* which expansion is called: "playlist" | "album" | "artist"
    xid,        \* the id argument of the call
    catalog,    \* what the remote service holds (fixed during a run)
    display,    \* the form an id's to_string() has: "uri" | "id"
    xpc,        \* position in the expansion
    albums,     \* full_artist's `albums` vector
    tracks,     \* full_artist's `tracks` vector
    atracks,    \* the running full_album's `tracks` vector
    k,          \* index of the album the `for album in albums` loop is at
    offset,     \* number of items the current paging stream has received
    inflight,   \* remote requests issued and not yet answered
    reqs,       \* every remote request issued, in order
    failed,     \* whether some remote request was answered with an error
    ret,        \* the value the expansion returned
    \* --- tag writer (ID3Tag)
    tag,        \* id3::Tag: frame id -> frame content
    separator,  \* ID3Tag.separator
    tpc,        \* "open" | "panicked"
    tag0,       \* the tag as ID3Tag::open found it
    lastSet,    \* per Field, the most recent set_field call and its separator
    lastDate,   \* the most recent set_release_date call and what it did
    version,    \* ID3Tag.version
    disk,       \* the tag and version save last wrote to the file
    saved,      \* what the most recent save returned
    direct,     \* the frame ids written by set_raw calls of the caller itself
    ncalls      \* number of calls made on the writer

uriVars == <<input, url, pc, parsed, calls, outcome>>
expVars == <<xop, xid, catalog, display, xpc, albums, tracks, atracks, k,
             offset, inflight, reqs, failed, ret>>
tagVars == <<tag, separator, tpc, tag0, lastSet, lastDate, version, disk, saved,
             direct, ncalls>>
vars == <<uriVars, expVars, tagVars>>

(***************************************************************************)
(* Bounds of the model.                                                    *)
(***************************************************************************)
MaxSegs == 3        \* segments after the scheme of an input string
MaxAlbums == 3      \* albums an artist's listing holds
MaxTracks == 3      \* tracks an album holds
MaxItems == 2       \* entries of a playlist's first page
MaxCalls == 3       \* calls made on one tag writer
PageSize == 2       \* items the remote service returns per page

(***************************************************************************)
(* Text.                                                                   *)
(***************************************************************************)
SpotifyPrefix == <<"s", "p", "o", "t", "i", "f", "y", ":">>
WebPlayerHost == <<"o", "p", "e", "n", ".", "s", "p", "o", "t", "i", "f", "y", ".", "c", "o", "m">>
OtherHost == <<"e", "x", "a", "m", "p", "l", "e", ".", "c", "o", "m">>
Https == <<"h", "t", "t", "p", "s", ":", "/", "/">>
Http == <<"h", "t", "t", "p", ":", "/", "/">>
App == <<"a", "p", "p", ":", "/", "/">>
HttpsUpperBackslash == <<"H", "T", "T", "P", "S", ":", "\\", "\\">>
UserHostPort == <<"u", "@", "O", "P", "E", "N", ".", "s", "p", "o", "t", "i", "f", "y",
                  ".", "c", "o", "m", ":", "0", "0", "0", "4", "4", "3">>
UpperWebPlayerHost == <<"O", "P", "E", "N", ".", "s", "p", "o", "t", "i", "f", "y",
                        ".", "c", "o", "m">>
PortTooLarge == <<":", "9", "9", "9", "9", "9">>
BadHost == <<"Z", "%", "f", "f">>
Spot == <<"s", "p", "o", "t", ":">>
KTrack == <<"t", "r", "a", "c", "k">>
KPlaylist == <<"p", "l", "a", "y", "l", "i", "s", "t">>
KAlbum == <<"a", "l", "b", "u", "m">>
KArtist == <<"a", "r", "t", "i", "s", "t">>
KShow == <<"s", "h", "o", "w">>
IdAbc == <<"a", "b", "c", "1">>
IdBad == <<"a", "-", "b">>
QuerySuffix == <<"?", "s", "i", "=", "1">>
Empty == << >>

Lower == {"a", "b", "c", "d", "e", "f", "g", "h", "i", "j", "k", "l", "m",
          "n", "o", "p", "q", "r", "s", "t", "u", "v", "w", "x", "y", "z"}
Upper == {"A", "B", "C", "D", "E", "F", "G", "H", "I", "J", "K", "L", "M",
          "N", "O", "P", "Q", "R", "S", "T", "U", "V", "W", "X", "Y", "Z"}
Digit == {"0", "1", "2", "3", "4", "5", "6", "7", "8", "9"}

\* str::starts_with
StartsWith(s, p) == Len(s) >= Len(p) /\ SubSeq(s, 1, Len(p)) = p

\* Position of the first character of s that is in set cs, or Len(s) + 1.
FirstOf(s, cs) ==
    IF \E i \in 1..Len(s) : s[i] \in cs
    THEN CHOOSE i \in 1..Len(s) : s[i] \in cs /\ \A j \in 1..(i - 1) : s[j] \notin cs
    ELSE Len(s) + 1

\* The pieces of s between the characters of set cs (always >= 1 piece).
RECURSIVE SplitAny(_, _)
SplitAny(s, cs) ==
    LET i == FirstOf(s, cs)
    IN IF i > Len(s) THEN <<s>>
       ELSE <<SubSeq(s, 1, i - 1)>> \o SplitAny(SubSeq(s, i + 1, Len(s)), cs)

\* str::split(c), collected.
Split(s, c) == SplitAny(s, {c})

\* [String]::join(sep)
RECURSIVE Join(_, _)
Join(parts, sep) ==
    IF Len(parts) = 0 THEN Empty
    ELSE IF Len(parts) = 1 THEN parts[1]
    ELSE parts[1] \o sep \o Join(Tail(parts), sep)

\* All sequences over S of length at most n.
SeqsUpTo(S, n) == UNION {[1..m -> S] : m \in 0..n}

DigitVal(c) ==
    CASE c = "0" -> 0 [] c = "1" -> 1 [] c = "2" -> 2 [] c = "3" -> 3 [] c = "4" -> 4
      [] c = "5" -> 5 [] c = "6" -> 6 [] c = "7" -> 7 [] c = "8" -> 8 [] c = "9" -> 9

\* The number the first n characters of s spell.
RECURSIVE Number(_, _)
Number(s, n) == IF n = 0 THEN 0 ELSE 10 * Number(s, n - 1) + DigitVal(s[n])

(***************************************************************************)
(* Result values.                                                          *)
(***************************************************************************)
Ok(v) == [ok |-> TRUE, val |-> v, err |-> "none"]
Err(e) == [ok |-> FALSE, val |-> Empty, err |-> e]
None == [ok |-> FALSE, val |-> Empty, err |-> "unset"]

(***************************************************************************)
(* The url crate.  Url::parse is not code of this repository: what it      *)
(* gives for the input string is, like the string, given to parse_uri.     *)
(* Of a URL parse_uri reads host_str() and path_segments(), and a URL is   *)
(* modelled as what these two return.                                      *)
(***************************************************************************)
\* Ok(url): host_str() is Some(host) when hasHost and None otherwise,
\* path_segments() is Some(segs) when hasPath and None otherwise.
UrlOk(hasHost, host, hasPath, segs) ==
    [kind |-> "Ok", hasHost |-> hasHost, host |-> host, hasPath |-> hasPath, segs |-> segs]
\* Err(ParseError)
UrlErr ==
    [kind |-> "Err", hasHost |-> FALSE, host |-> Empty, hasPath |-> FALSE, segs |-> << >>]
\* Url::parse does not return: a debug assertion of the crate fails.
UrlPanic ==
    [kind |-> "Panic", hasHost |-> FALSE, host |-> Empty, hasPath |-> FALSE, segs |-> << >>]

(***************************************************************************)
(* Spotify::parse_uri                                                      *)
(***************************************************************************)
\* impl From<url::ParseError> for SpotifyError, which `?` applies.
FromParseError == "InvalidUri"

\* The mutant counts one segment too many.
NativeTooShortOffByOne(uri) == Len(Split(uri, ":")) < 4
\* uri.split(':').count() < 3
NativeTooShort(uri) == Len(Split(uri, ":")) < 3

\* The mutant takes the last path segment as the id.
WebUriLastSegment(path) == SpotifyPrefix \o path[1] \o <<":">> \o path[Len(path)]
\* format!("spotify:{}:{}", path[0], path[1])
WebUri(path) == SpotifyPrefix \o path[1] \o <<":">> \o path[2]

\* the final Err(SpotifyError::InvalidUri)
OtherHostError == Err("InvalidUri")

\* parse_uri did not return: the panic of Url::parse unwinds through it.
Unwound == [ok |-> FALSE, val |-> Empty, err |-> "panicked"]

\* Spotify::parse_uri(uri), where u is what Url::parse(uri) gives (it is
\* called only for a uri that does not start with "spotify:").
parse_uri(uri, u) ==
    IF StartsWith(uri, SpotifyPrefix)
    THEN IF NativeTooShort(uri) THEN Err("InvalidUri") ELSE Ok(uri)
    ELSE IF u.kind = "Panic" THEN Unwound
    ELSE IF u.kind = "Err" THEN Err(FromParseError)
    ELSE IF u.hasHost /\ u.host = WebPlayerHost
    THEN IF ~u.hasPath THEN Err("Error")           \* "Missing URL path"
         ELSE IF Len(u.segs) < 2 THEN Err("InvalidUri")
         ELSE Ok(WebUri(u.segs))
    ELSE OtherHostError

(***************************************************************************)
(* Spotify::resolve_uri                                                    *)
(***************************************************************************)
AlphaNum == Lower \cup Upper \cup Digit

\* TrackId::from_id and its siblings (rspotify): Ok only for an id made of ASCII
\* letters and digits. Every call site unwraps the result.
from_id(id) == \A i \in 1..Len(id) : id[i] \in AlphaNum

\* uri.split(':').skip(1).collect()
UriParts(uri) == Tail(Split(uri, ":"))

\* The arms of `match parts[0]`: the SpotifyItem variant each kind fetches.
FetchVariant(kind) ==
    CASE kind = KTrack -> "Track"
      [] kind = KPlaylist -> "Playlist"
      [] kind = KAlbum -> "Album"
      [] kind = KArtist -> "Artist"
      [] OTHER -> "Other"

NoItem == [ok |-> FALSE, variant |-> "none", data |-> Empty, err |-> "unset"]
OkItem(variant, data) == [ok |-> TRUE, variant |-> variant, data |-> data, err |-> "none"]
ErrItem(e) == [ok |-> FALSE, variant |-> "none", data |-> Empty, err |-> e]

(***************************************************************************)
(* The inputs of the reference model.                                      *)
(***************************************************************************)
NativeSegs == {KTrack, KPlaylist, KAlbum, KArtist, KShow, IdAbc, IdBad, Empty}
UrlSegs == {KTrack, IdAbc, IdBad, Empty}

RECURSIVE SlashPath(_)
SlashPath(segs) ==
    IF Len(segs) = 0 THEN Empty ELSE <<"/">> \o segs[1] \o SlashPath(Tail(segs))

\* A URL without host and without path segments, such as "spot:track:abc1".
OpaqueUrl == UrlOk(FALSE, Empty, FALSE, << >>)

\* Strings of the native scheme, and of a scheme that only looks like it. The
\* text after the scheme never starts with a slash, so the URL has no path
\* segments.
NativeInputs ==
    {[uri |-> pre \o Join(segs, <<":">>), url |-> OpaqueUrl] :
        pre \in {SpotifyPrefix, Spot}, segs \in SeqsUpTo(NativeSegs, MaxSegs)}

\* The schemes of the web inputs: https and http are special schemes of the URL
\* standard (the scheme is case-insensitive, a backslash counts as a slash, the
\* host is lower-cased), app is not.
SpecialPrefixes == {Https, Http, HttpsUpperBackslash}
\* What host_str() gives for the authority written in the input.
HostOf(authority, special) ==
    IF authority = UserHostPort
    THEN IF special THEN WebPlayerHost ELSE UpperWebPlayerHost
    ELSE authority
\* What path_segments() gives for the path written in the input: the segments
\* between the slashes, the empty ones too; a special URL always has a path, any
\* other has none when nothing follows the authority.
PathOf(segs, tail, special) ==
    LET written == segs \o (IF tail = <<"/">> THEN <<Empty>> ELSE << >>)
    IN IF Len(written) > 0 THEN [hasPath |-> TRUE, segs |-> written]
       ELSE IF special THEN [hasPath |-> TRUE, segs |-> <<Empty>>]
       ELSE [hasPath |-> FALSE, segs |-> << >>]

\* Well-formed web URLs: scheme, authority, path segments, and a trailing slash
\* or a query, with the URL that Url::parse gives for them.
WebInputs ==
    {[uri |-> pre \o authority \o SlashPath(segs) \o tail,
      url |-> UrlOk(TRUE, HostOf(authority, pre \in SpecialPrefixes),
                    PathOf(segs, tail, pre \in SpecialPrefixes).hasPath,
                    PathOf(segs, tail, pre \in SpecialPrefixes).segs)] :
        pre \in SpecialPrefixes \cup {App},
        authority \in {WebPlayerHost, OtherHost, UserHostPort},
        segs \in SeqsUpTo(UrlSegs, MaxSegs),
        tail \in {Empty, <<"/">>, QuerySuffix}}

\* Malformed URLs: no scheme (a relative URL without a base), no host after a
\* special scheme, a port above 65535.
MalformedInputs ==
    {[uri |-> host \o SlashPath(segs), url |-> UrlErr] :
        host \in {WebPlayerHost, Empty}, segs \in SeqsUpTo(UrlSegs, MaxSegs)}
    \cup {[uri |-> Https, url |-> UrlErr],
          [uri |-> Https \o WebPlayerHost \o PortTooLarge \o SlashPath(<<KTrack, IdAbc>>),
           url |-> UrlErr]}

\* A host with an upper-case letter and a byte that is not ASCII: Url::parse
\* returns an error in a release build and panics in a debug build.
BuildDependentInputs ==
    {[uri |-> Https \o BadHost \o <<"/">>, url |-> u] : u \in {UrlErr, UrlPanic}}

Inputs == NativeInputs \cup WebInputs \cup MalformedInputs \cup BuildDependentInputs

(***************************************************************************)
(* Initial values of the parts a specification leaves alone.               *)
(***************************************************************************)
UriIdle ==
    /\ input = Empty /\ url = UrlErr /\ pc = "idle" /\ parsed = None /\ calls = << >>
    /\ outcome = NoItem

ExpIdle ==
    /\ xop = "none" /\ xid = Empty /\ catalog = << >> /\ display = "id"
    /\ xpc = "idle" /\ albums = << >> /\ tracks = << >> /\ atracks = << >>
    /\ k = 0 /\ offset = 0 /\ inflight = 0 /\ reqs = << >>
    /\ failed = FALSE /\ ret = None

TagIdle ==
    /\ tag = << >> /\ separator = Empty /\ tpc = "idle" /\ tag0 = << >>
    /\ lastSet = << >> /\ lastDate = << >> /\ ncalls = 0
    /\ version = "none" /\ disk = << >> /\ saved = "none" /\ direct = {}

(***************************************************************************)
(* Reference parsing and dispatch: the caller parses its argument and      *)
(* resolves the reference it got.                                          *)
(***************************************************************************)
InitUri ==
    /\ \E i \in Inputs : input = i.uri /\ url = i.url
    /\ pc = "input"
    /\ parsed = None
    /\ calls = << >>
    /\ outcome = NoItem
    /\ ExpIdle /\ TagIdle

\* Spotify::parse_uri(input)
ParseUri ==
    /\ pc = "input"
    /\ LET r == parse_uri(input, url)
       IN IF r = Unwound
          THEN pc' = "parse_panicked" /\ parsed' = parsed
          ELSE pc' = (IF r.ok THEN "parsed" ELSE "rejected") /\ parsed' = r
    /\ UNCHANGED <<input, url, calls, outcome, expVars, tagVars>>

\* resolve_uri(&parsed) up to its first await (or its return, or its panic).
ResolveUri ==
    /\ pc = "parsed"
    /\ LET parts == UriParts(parsed.val)
       IN IF Len(parts) < 2
          THEN /\ pc' = "panicked"                      \* parts[1]: index out of bounds
               /\ UNCHANGED <<calls, outcome>>
          ELSE LET id == parts[2]
                   variant == FetchVariant(parts[1])
               IN IF variant = "Other"
                  THEN /\ outcome' = OkItem("Other", parsed.val)
                       /\ pc' = "done"
                       /\ UNCHANGED calls
                  ELSE IF from_id(id)
                  THEN /\ calls' = Append(calls, [fetch |-> variant, id |-> id])
                       /\ pc' = "awaiting"
                       /\ UNCHANGED outcome
                  ELSE /\ pc' = "panicked"              \* from_id(id).unwrap()
                       /\ UNCHANGED <<calls, outcome>>
    /\ UNCHANGED <<input, url, parsed, expVars, tagVars>>

\* The remote service answers the fetch with the item.
FetchOk ==
    /\ pc = "awaiting"
    /\ outcome' = OkItem(calls[Len(calls)].fetch, calls[Len(calls)].id)
    /\ pc' = "done"
    /\ UNCHANGED <<input, url, parsed, calls, expVars, tagVars>>

\* The remote call fails; `?` returns the error.
FetchErr ==
    /\ pc = "awaiting"
    /\ outcome' = ErrItem("Remote")
    /\ pc' = "done"
    /\ UNCHANGED <<input, url, parsed, calls, expVars, tagVars>>

NextUri == ParseUri \/ ResolveUri \/ FetchOk \/ FetchErr

SpecUri == InitUri /\ [][NextUri]_vars

(***************************************************************************)
(* The remote catalog that expansion pages through.                        *)
(*   listing : the artist's albums in listing order; 0 is an album whose   *)
(*             `id` field is None                                          *)
(*   ntracks : the number of tracks of each album                          *)
(*   items   : the first page of the playlist; a positive entry is a       *)
(*             track, 0 an empty slot, -1 an episode                       *)
(***************************************************************************)
AlbumIds == {1, 2}
AlbumIdDef == <<"d", "e", "f", "2">>
AlbumUriPrefix == <<"s", "p", "o", "t", "i", "f", "y", ":", "a", "l", "b", "u", "m", ":">>

\* The id of album a, as text.
AlbumIdText(a) == IF a = 1 THEN IdAbc ELSE AlbumIdDef
\* The album a well-formed id names.
AlbumOfText(t) == IF t = IdAbc THEN 1 ELSE 2

\* The i-th track of album a. Albums 1 and 2 share tracks.
TrackOf(a, i) == a + i - 1
AlbumTracks(cat, a) == [i \in 1..cat.ntracks[a] |-> TrackOf(a, i)]

Catalogs ==
    [listing : SeqsUpTo(AlbumIds \cup {0}, MaxAlbums),
     ntracks : [AlbumIds -> 0..MaxTracks],
     items : {<< >>}]

PlaylistCatalogs ==
    [listing : {<< >>},
     ntracks : {[a \in AlbumIds |-> 0]},
     items : SeqsUpTo({-1, 0, 1, 2}, MaxItems)]

Min(a, b) == IF a < b THEN a ELSE b

\* One page of a paged listing: the items from `off`, and whether a page follows.
Page(all, off) ==
    [items |-> SubSeq(all, off + 1, Min(off + PageSize, Len(all))),
     next |-> off + PageSize < Len(all)]

\* album.id.unwrap().to_string(). rspotify's id types display as their URI,
\* "spotify:album:<id>"; the bare form is kept as a second outcome, so that what
\* is established of the album loop does not rest on the URI form alone.
IdToString(a, disp) ==
    IF disp = "uri" THEN AlbumUriPrefix \o AlbumIdText(a) ELSE AlbumIdText(a)

\* filter_map(|item| item.track) and flat_map(Track only) over the playlist page.
RECURSIVE PlaylistTracks(_)
PlaylistTracks(items) ==
    IF Len(items) = 0 THEN << >>
    ELSE (IF items[1] > 0 THEN <<items[1]>> ELSE << >>) \o PlaylistTracks(Tail(items))

(***************************************************************************)
(* Catalog expansion: full_playlist, full_album, full_artist.              *)
(***************************************************************************)
InitExpand ==
    /\ \/ /\ xop = "playlist" /\ xid \in {IdAbc, IdBad}
          /\ catalog \in PlaylistCatalogs /\ display = "id"
       \/ /\ xop = "album" /\ xid \in {AlbumIdText(a) : a \in AlbumIds} \cup {IdBad}
          /\ catalog \in {c \in Catalogs : c.listing = << >>} /\ display = "id"
       \/ /\ xop = "artist" /\ xid \in {IdAbc, IdBad}
          /\ catalog \in Catalogs /\ display \in {"uri", "id"}
    /\ xpc = "start"
    /\ albums = << >> /\ tracks = << >> /\ atracks = << >>
    /\ k = 0 /\ offset = 0
    /\ inflight = 0 /\ reqs = << >> /\ failed = FALSE /\ ret = None
    /\ UriIdle /\ TagIdle

\* The album whose tracks the running full_album pages through.
CurAlbum == IF xop = "artist" THEN albums[k] ELSE AlbumOfText(xid)

\* What the paging stream of the current position pages through.
Paged == IF xpc \in {"listing", "listing_wait"} THEN catalog.listing
         ELSE AlbumTracks(catalog, CurAlbum)

\* The mutant stops at the first page, as full_playlist does.
StreamEndedFirstPage(next) == TRUE
\* try_next() yields None: the last page had no successor.
StreamEnded(next) == ~next

\* The expansion is called: the id is converted and unwrapped, and the playlist
\* is requested or the paging stream created.
Call ==
    /\ xpc = "start"
    /\ IF ~from_id(xid)
       THEN /\ xpc' = "panicked"                        \* from_id(id).unwrap()
            /\ UNCHANGED <<inflight, reqs>>
       ELSE IF xop = "playlist"
       THEN /\ xpc' = "playlist_wait"
            /\ inflight' = inflight + 1
            /\ reqs' = Append(reqs, [what |-> "playlist", k |-> 0, offset |-> 0])
       ELSE /\ xpc' = IF xop = "album" THEN "album" ELSE "listing"
            /\ UNCHANGED <<inflight, reqs>>
    /\ UNCHANGED <<xop, xid, catalog, display, albums, tracks, atracks, k,
                   offset, failed, ret, uriVars, tagVars>>

\* stream.try_next() with nothing buffered: the next page is requested.
RequestPage ==
    /\ xpc \in {"listing", "album"}
    /\ inflight' = inflight + 1
    /\ reqs' = Append(reqs, [what |-> IF xpc = "listing" THEN "albums" ELSE "tracks",
                             k |-> k, offset |-> offset])
    /\ xpc' = IF xpc = "listing" THEN "listing_wait" ELSE "album_wait"
    /\ UNCHANGED <<xop, xid, catalog, display, albums, tracks, atracks, k,
                   offset, failed, ret, uriVars, tagVars>>

\* The page arrives; the loop pushes its items, and when the stream has ended
\* the loop is left: full_artist goes on to its albums, full_album returns.
PageOk ==
    /\ xpc \in {"listing_wait", "album_wait"}
    /\ LET page == Page(Paged, offset)
       IN /\ inflight' = inflight - 1
          /\ offset' = IF StreamEnded(page.next) THEN 0 ELSE offset + Len(page.items)
          /\ IF xpc = "listing_wait"
             THEN /\ albums' = albums \o page.items
                  /\ xpc' = IF StreamEnded(page.next) THEN "loop" ELSE "listing"
                  /\ k' = IF StreamEnded(page.next) THEN 1 ELSE k
                  /\ UNCHANGED <<tracks, atracks, ret>>
             ELSE IF ~StreamEnded(page.next)
             THEN /\ atracks' = atracks \o page.items
                  /\ xpc' = "album"
                  /\ UNCHANGED <<albums, tracks, k, ret>>
             ELSE IF xop = "album"
             THEN /\ ret' = Ok(atracks \o page.items)   \* Ok(tracks)
                  /\ atracks' = << >>
                  /\ xpc' = "returned"
                  /\ UNCHANGED <<albums, tracks, k>>
             ELSE /\ tracks' = tracks \o (atracks \o page.items)   \* tracks.append(..)
                  /\ atracks' = << >>
                  /\ k' = k + 1
                  /\ xpc' = "loop"
                  /\ UNCHANGED <<albums, ret>>
    /\ UNCHANGED <<xop, xid, catalog, display, reqs, failed, uriVars, tagVars>>

\* The playlist arrives: its first page is filtered and returned.
PlaylistOk ==
    /\ xpc = "playlist_wait"
    /\ inflight' = inflight - 1
    /\ ret' = Ok(PlaylistTracks(catalog.items))
    /\ xpc' = "returned"
    /\ UNCHANGED <<xop, xid, catalog, display, albums, tracks, atracks, k,
                   offset, reqs, failed, uriVars, tagVars>>

\* A remote request fails: the Err is unwrapped.
RequestErr ==
    /\ xpc \in {"listing_wait", "album_wait", "playlist_wait"}
    /\ inflight' = inflight - 1
    /\ failed' = TRUE
    /\ xpc' = "panicked"                                \* .await.unwrap()
    /\ UNCHANGED <<xop, xid, catalog, display, albums, tracks, atracks, k,
                   offset, reqs, ret, uriVars, tagVars>>

\* `for album in albums`: the next album's id is unwrapped, printed to a string
\* and handed to full_album, which converts it back; after the last album the
\* tracks are returned.
NextAlbum ==
    /\ xpc = "loop"
    /\ IF k > Len(albums)
       THEN /\ ret' = Ok(tracks)
            /\ xpc' = "returned"
       ELSE /\ xpc' = IF albums[k] = 0 THEN "panicked"  \* album.id.unwrap()
                      ELSE IF ~from_id(IdToString(albums[k], display))
                      THEN "panicked"                   \* AlbumId::from_id(id).unwrap()
                      ELSE "album"
            /\ UNCHANGED ret
    /\ UNCHANGED <<xop, xid, catalog, display, albums, tracks, atracks, k,
                   offset, inflight, reqs, failed, uriVars, tagVars>>

NextExpand == Call \/ RequestPage \/ PageOk \/ PlaylistOk \/ RequestErr \/ NextAlbum

SpecExpand == InitExpand /\ [][NextExpand]_vars

(***************************************************************************)
(* The ID3 tag writer: ID3Tag and its impl of Tag.                         *)
(***************************************************************************)
Fields == {"Title", "Artist", "Album", "TrackNumber", "DiscNumber",
           "AlbumArtist", "Genre", "Label"}

\* The mutant stores the album artist under the artist's frame.
FieldKeyArtistClash(field) ==
    CASE field = "Title" -> "TIT2"
      [] field = "Artist" -> "TPE1"
      [] field = "Album" -> "TALB"
      [] field = "TrackNumber" -> "TRCK"
      [] field = "DiscNumber" -> "TPOS"
      [] field = "Genre" -> "TCON"
      [] field = "Label" -> "TPUB"
      [] field = "AlbumArtist" -> "TPE1"
\* `match field` of set_field
FieldKey(field) ==
    CASE field = "Title" -> "TIT2"
      [] field = "Artist" -> "TPE1"
      [] field = "Album" -> "TALB"
      [] field = "TrackNumber" -> "TRCK"
      [] field = "DiscNumber" -> "TPOS"
      [] field = "Genre" -> "TCON"
      [] field = "Label" -> "TPUB"
      [] field = "AlbumArtist" -> "TPE2"

\* The frames followed: the eight of the table, one more text frame a caller may
\* write with set_raw, the release date, the picture and the file identifier.
FrameIds == {"TIT2", "TPE1", "TALB", "TRCK", "TPOS", "TCON", "TPUB", "TPE2", "TSRC",
             "TDRL", "APIC", "UFID"}
\* The keys the caller passes to set_raw itself.
RawKeys == {"TIT2", "TSRC"}

NoDate == <<0, 0, 0>>
NoFrame == [set |-> FALSE, text |-> Empty, date |-> NoDate, data |-> Empty]
TextFrame(text) == [set |-> TRUE, text |-> text, date |-> NoDate, data |-> Empty]
DateFrame(date) == [set |-> TRUE, text |-> Empty, date |-> date, data |-> Empty]
\* Picture { mime_type, picture_type: CoverFront, description: "cover", data }
PictureFrame(mime, data) == [set |-> TRUE, text |-> mime, date |-> NoDate, data |-> data]
\* UniqueFileIdentifier { owner_identifier, identifier }
UfidFrame(owner, identifier) ==
    [set |-> TRUE, text |-> owner, date |-> NoDate, data |-> identifier]

\* Tag::add_frame: a front cover replaces the front cover, an identifier replaces
\* the identifier of the same owner.
add_frame(t, key, frame) == [t EXCEPT ![key] = frame]

\* Tag::set_text: the frame of that id is replaced.
set_text(t, key, text) == [t EXCEPT ![key] = TextFrame(text)]

\* ID3Tag::set_raw: self.tag.set_text(tag, value.join(&self.separator))
set_raw(t, key, value, sep) == set_text(t, key, Join(value, sep))

\* ID3Tag::set_field
set_field(t, field, value, sep) == set_raw(t, FieldKey(field), value, sep)

\* The length of the run of digits s starts with, at most `most`.
RECURSIVE DigitRun(_, _)
DigitRun(s, most) ==
    IF most = 0 \/ Len(s) = 0 \/ s[1] \notin Digit THEN 0
    ELSE 1 + DigitRun(Tail(s), most - 1)

\* Timestamp::from_str (id3) on "YYYY", "YYYY-MM" and "YYYY-MM-DD": a year is
\* required, month and day are optional, anything left over is an error.
\* Returns <<ok, <<year, month, day>>>>.
ParseTimestamp(s) ==
    LET ny == DigitRun(s, 4)
        s1 == SubSeq(s, ny + 1, Len(s))
        hasM == Len(s1) > 0 /\ s1[1] = "-"
        nm == IF hasM THEN DigitRun(Tail(s1), 2) ELSE 0
        s2 == IF hasM THEN SubSeq(s1, nm + 2, Len(s1)) ELSE s1
        hasD == nm > 0 /\ Len(s2) > 0 /\ s2[1] = "-"
        nd == IF hasD THEN DigitRun(Tail(s2), 2) ELSE 0
        s3 == IF hasD THEN SubSeq(s2, nd + 2, Len(s2)) ELSE s2
    IN IF ny = 0 \/ (hasM /\ nm = 0) \/ (hasD /\ nd = 0) \/ Len(s3) > 0
       THEN <<FALSE, NoDate>>
       ELSE <<TRUE, <<Number(s, ny),
                      IF hasM THEN Number(Tail(s1), nm) ELSE 0,
                      IF hasD THEN Number(Tail(s2), nd) ELSE 0>>>>

Foo == <<"F", "o", "o">>
Bar == <<"B", "a", "r">>
Old == <<"O", "l", "d">>
SemiSpace == <<";", " ">>
Date1 == <<"2", "0", "2", "4", "-", "0", "1", "-", "0", "1">>
Date2 == <<"2", "0", "2", "4">>
NotADate == <<"n", "o", "t", "-", "a", "-", "d", "a", "t", "e">>

Jpeg == <<"i", "m", "a", "g", "e", "/", "j", "p", "e", "g">>
Png == <<"i", "m", "a", "g", "e", "/", "p", "n", "g">>
CoverData == <<"d", "1">>
UfidOwner == <<"s", "p", "o", "t", "i", "f", "y", ".", "c", "o", "m">>

Separators == {Empty, SemiSpace}
Mimes == {Jpeg, Png}
TrackIds == {IdAbc, AlbumIdDef}
ValueLists == {<< >>, <<Bar>>, <<Foo, Bar>>}
Dates == {Date1, Date2, NotADate}

EmptyTag == [f \in FrameIds |-> NoFrame]
\* The tags ID3Tag::open may find: none (the default) or an earlier one.
OpenedTags ==
    {EmptyTag,
     [EmptyTag EXCEPT !["TIT2"] = TextFrame(Old), !["TPE2"] = TextFrame(Old),
                      !["TDRL"] = DateFrame(<<1999, 0, 0>>)]}

NeverSet == [set |-> FALSE, values |-> << >>, sep |-> Empty]
NoDateCall == [at |-> 0, date |-> Empty, result |-> "none", before |-> EmptyTag]

\* ID3Tag::open
InitTag ==
    /\ tag \in OpenedTags
    /\ tag0 = tag
    /\ separator = Empty                                \* String::new()
    /\ tpc = "open"
    /\ lastSet = [f \in Fields |-> NeverSet]
    /\ lastDate = NoDateCall
    /\ version = "Id3v23"                                \* Version::Id3v23
    /\ disk = [tag |-> tag, version |-> "file"]
    /\ saved = "none"
    /\ direct = {}
    /\ ncalls = 0
    /\ UriIdle /\ ExpIdle

\* set_separator(sep)
SetSeparator ==
    /\ tpc = "open" /\ ncalls < MaxCalls
    /\ \E sep \in Separators : separator' = sep
    /\ ncalls' = ncalls + 1
    /\ UNCHANGED <<tag, tpc, tag0, lastSet, lastDate, version, disk, saved, direct,
                   uriVars, expVars>>

\* use_id3_v24(v)
UseId3V24 ==
    /\ tpc = "open" /\ ncalls < MaxCalls
    /\ \E v \in BOOLEAN : version' = IF v THEN "Id3v24" ELSE "Id3v23"
    /\ ncalls' = ncalls + 1
    /\ UNCHANGED <<tag, separator, tpc, tag0, lastSet, lastDate, disk, saved, direct,
                   uriVars, expVars>>

\* set_raw(tag, value), called by the caller itself
SetRaw ==
    /\ tpc = "open" /\ ncalls < MaxCalls
    /\ \E key \in RawKeys, value \in ValueLists :
          /\ tag' = set_raw(tag, key, value, separator)
          /\ direct' = direct \cup {key}
    /\ ncalls' = ncalls + 1
    /\ UNCHANGED <<separator, tpc, tag0, lastSet, lastDate, version, disk, saved,
                   uriVars, expVars>>

\* set_field(field, value)
SetField ==
    /\ tpc = "open" /\ ncalls < MaxCalls
    /\ \E field \in Fields, value \in ValueLists :
          /\ tag' = set_field(tag, field, value, separator)
          /\ lastSet' = [lastSet EXCEPT ![field] =
                            [set |-> TRUE, values |-> value, sep |-> separator]]
          /\ direct' = direct \ {FieldKey(field)}
    /\ ncalls' = ncalls + 1
    /\ UNCHANGED <<separator, tpc, tag0, lastDate, version, disk, saved, uriVars, expVars>>

\* add_cover(mime, data)
AddCover ==
    /\ tpc = "open" /\ ncalls < MaxCalls
    /\ \E mime \in Mimes : tag' = add_frame(tag, "APIC", PictureFrame(mime, CoverData))
    /\ ncalls' = ncalls + 1
    /\ UNCHANGED <<separator, tpc, tag0, lastSet, lastDate, version, disk, saved, direct,
                   uriVars, expVars>>

\* add_unique_file_identifier(track_id)
AddUniqueFileIdentifier ==
    /\ tpc = "open" /\ ncalls < MaxCalls
    /\ \E id \in TrackIds : tag' = add_frame(tag, "UFID", UfidFrame(UfidOwner, id))
    /\ ncalls' = ncalls + 1
    /\ UNCHANGED <<separator, tpc, tag0, lastSet, lastDate, version, disk, saved, direct,
                   uriVars, expVars>>

\* save(): the tag is written to the path in the chosen version, or the write
\* fails and the error is returned.
Save ==
    /\ tpc = "open" /\ ncalls < MaxCalls
    /\ \/ /\ disk' = [tag |-> tag, version |-> version]
          /\ saved' = "Ok"
       \/ /\ disk' = disk
          /\ saved' = "Err"
    /\ ncalls' = ncalls + 1
    /\ UNCHANGED <<tag, separator, tpc, tag0, lastSet, lastDate, version, direct,
                   uriVars, expVars>>

\* set_release_date(date): the parse result is unwrapped, and the method returns ().
SetReleaseDate ==
    /\ tpc = "open" /\ ncalls < MaxCalls
    /\ \E date \in Dates :
          LET ts == ParseTimestamp(date)
          IN IF ts[1]
             THEN /\ tag' = [tag EXCEPT !["TDRL"] = DateFrame(ts[2])]
                  /\ tpc' = "open"
                  /\ lastDate' = [at |-> ncalls + 1, date |-> date,
                                  result |-> "returned", before |-> tag]
             ELSE /\ tag' = tag
                  /\ tpc' = "panicked"                  \* from_str(&date).unwrap()
                  /\ lastDate' = [at |-> ncalls + 1, date |-> date,
                                  result |-> "panicked", before |-> tag]
    /\ ncalls' = ncalls + 1
    /\ UNCHANGED <<separator, tag0, lastSet, version, disk, saved, direct,
                   uriVars, expVars>>

NextTag ==
    \/ SetSeparator \/ UseId3V24 \/ SetRaw \/ SetField \/ AddCover
    \/ AddUniqueFileIdentifier \/ SetReleaseDate \/ Save

SpecTag == InitTag /\ [][NextTag]_vars

(***************************************************************************)
(* Claims about reference parsing and dispatch, checked under SpecUri.     *)
(***************************************************************************)
FourKinds == {KTrack, KPlaylist, KAlbum, KArtist}
Colon == <<":">>

\* C1: an input that does not start with "spotify:" and parses as a URL whose host
\* is open.spotify.com yields exactly "spotify:<seg0>:<seg1>" from its first two
\* path segments when it has at least two, and fails when it has fewer.
C1_WebUrlToCanonical ==
    (pc # "input" /\ ~StartsWith(input, SpotifyPrefix)
       /\ url.kind = "Ok" /\ url.hasHost /\ url.host = WebPlayerHost) =>
        IF url.hasPath /\ Len(url.segs) >= 2
        THEN parsed = Ok(SpotifyPrefix \o url.segs[1] \o Colon \o url.segs[2])
        ELSE pc = "rejected" /\ ~parsed.ok

\* A web-player URL with three path segments and a query was parsed: the third
\* segment and the query are gone.
C1_Witness ==
    /\ input = Https \o WebPlayerHost \o SlashPath(<<KTrack, IdAbc, IdBad>>) \o QuerySuffix
    /\ url = UrlOk(TRUE, WebPlayerHost, TRUE, <<KTrack, IdAbc, IdBad>>)
    /\ pc = "parsed"
    /\ parsed = Ok(SpotifyPrefix \o KTrack \o Colon \o IdAbc)

\* C2 (as claimed): an input that does not start with "spotify:" and is a malformed
\* URL, or a URL of another host, fails with InvalidUri and with no other error
\* kind.
C2_ForeignOrMalformedIsInvalidUri ==
    (pc # "input" /\ ~StartsWith(input, SpotifyPrefix)
       /\ (url.kind # "Ok" \/ ~url.hasHost \/ url.host # WebPlayerHost)) =>
        (pc = "rejected" /\ parsed = Err("InvalidUri"))

\* C3: parse_uri is idempotent, and the identity on canonical strings: the result of
\* a successful parse parses to itself, and a "spotify:" string of at least three
\* segments is returned unchanged. (The result starts with "spotify:", so that
\* Url::parse is not called on it; as a URL it has neither host nor path segments.)
C3_ParseIdempotent ==
    /\ (pc # "input" /\ parsed.ok) =>
          /\ StartsWith(parsed.val, SpotifyPrefix)
          /\ parse_uri(parsed.val, OpaqueUrl) = Ok(parsed.val)
    /\ (pc # "input" /\ StartsWith(input, SpotifyPrefix)
          /\ Len(Split(input, ":")) >= 3) => parsed = Ok(input)

\* A web URL was turned into a canonical string that differs from it.
C3_Witness ==
    /\ input = Http \o WebPlayerHost \o SlashPath(<<KTrack, IdAbc>>) \o <<"/">>
    /\ url = UrlOk(TRUE, WebPlayerHost, TRUE, <<KTrack, IdAbc, Empty>>)
    /\ pc = "parsed"
    /\ parsed.val = SpotifyPrefix \o KTrack \o Colon \o IdAbc
    /\ parsed.val # input

\* C4 (as claimed): a successfully parsed reference of kind track, playlist, album
\* or artist has a non-empty id segment.
C4_IdNonEmpty ==
    (pc # "input" /\ parsed.ok) =>
        LET parts == UriParts(parsed.val)
        IN parts[1] \in FourKinds => Len(parts[2]) > 0

\* C5 (as claimed): once resolve_uri has ended, a reference of kind track, playlist,
\* album or artist has issued exactly one fetch, of that kind; any other reference
\* has issued none and got Other with the reference string unchanged.
C5_DispatchOnKind ==
    (pc \in {"done", "panicked"}) =>
        LET parts == UriParts(parsed.val)
        IN IF parts[1] \in FourKinds
           THEN /\ Len(calls) = 1
                /\ calls[1].fetch = (CASE parts[1] = KTrack -> "Track"
                                       [] parts[1] = KPlaylist -> "Playlist"
                                       [] parts[1] = KAlbum -> "Album"
                                       [] parts[1] = KArtist -> "Artist")
           ELSE /\ calls = << >>
                /\ outcome = OkItem("Other", parsed.val)

(***************************************************************************)
(* Claims about catalog expansion, checked under SpecExpand.               *)
(***************************************************************************)
Ended == xpc \in {"returned", "panicked"}

\* The tracks of the listed albums, album after album.
RECURSIVE ConcatAlbums(_, _)
ConcatAlbums(cat, listing) ==
    IF Len(listing) = 0 THEN << >>
    ELSE AlbumTracks(cat, listing[1]) \o ConcatAlbums(cat, Tail(listing))

\* C6 (as claimed): when a remote request of an expansion has failed, the
\* expansion returns that failure to its caller as an error value.
C6_FailureIsReturned ==
    (Ended /\ failed) => (xpc = "returned" /\ ~ret.ok /\ ret.err = "Remote")

\* C7 (as claimed): when every fetch succeeds, the expansion of an artist (of a
\* well-formed id, whose albums all carry an id) returns the tracks of its albums
\* in listing order, each album's tracks in album order, duplicates kept.
C7_ArtistConcatenation ==
    (xop = "artist" /\ Ended /\ ~failed /\ from_id(xid)
       /\ \A i \in 1..Len(catalog.listing) : catalog.listing[i] # 0) =>
        (xpc = "returned" /\ ret = Ok(ConcatAlbums(catalog, catalog.listing)))

TrackReqs == {i \in 1..Len(reqs) : reqs[i].what = "tracks"}

\* C10: at most one remote request is in flight; in artist expansion no album's
\* tracks are requested before the album listing is exhausted, and the tracks of
\* the album after album k are requested only once album k's last page has been.
C10_SequentialPaging ==
    /\ inflight <= 1
    /\ inflight = 1 <=> xpc \in {"listing_wait", "album_wait", "playlist_wait"}
    /\ xop = "artist" =>
          \A i \in TrackReqs :
              /\ \A j \in 1..Len(reqs) : reqs[j].what = "albums" => j < i
              /\ albums = catalog.listing
              /\ \A j \in TrackReqs :
                    (j < i /\ reqs[j].k # reqs[i].k) =>
                        /\ reqs[j].k < reqs[i].k
                        /\ \E l \in TrackReqs :
                              /\ l < i /\ reqs[l].k = reqs[j].k
                              /\ reqs[l].offset + PageSize
                                    >= catalog.ntracks[albums[reqs[l].k]]

\* An artist of three albums, listed over two pages; the first album took two
\* pages of tracks, and the second album's tracks have been requested.
C10_Witness ==
    /\ xop = "artist" /\ Len(catalog.listing) = 3
    /\ Cardinality({i \in 1..Len(reqs) : reqs[i].what = "albums"}) = 2
    /\ Cardinality({i \in TrackReqs : reqs[i].k = 1}) = 2
    /\ \E i \in TrackReqs : reqs[i].k = 2
    /\ inflight = 1

(***************************************************************************)
(* Claims about the tag writer, checked under SpecTag.                     *)
(***************************************************************************)
\* The native key of each canonical field, as the mapping table states it.
TableKey ==
    [f \in Fields |->
        CASE f = "Title" -> "TIT2" [] f = "Artist" -> "TPE1" [] f = "Album" -> "TALB"
          [] f = "TrackNumber" -> "TRCK" [] f = "DiscNumber" -> "TPOS"
          [] f = "Genre" -> "TCON" [] f = "Label" -> "TPUB" [] f = "AlbumArtist" -> "TPE2"]

\* C8: after any sequence of set_separator and set_field calls, the native key of
\* each field holds the values of the field's most recent set_field joined with the
\* separator configured at that call; a field never set keeps what the file had.
\* In particular ["Foo", "Bar"] under "; " reads back as "Foo; Bar". Calls of the
\* other methods may come in between; only a key the caller has since written
\* with set_raw itself is left out.
C8_FieldHoldsLastJoin ==
    \A f \in Fields : TableKey[f] \notin direct =>
        /\ lastSet[f].set =>
              tag[TableKey[f]] = TextFrame(Join(lastSet[f].values, lastSet[f].sep))
        /\ ~lastSet[f].set => tag[TableKey[f]] = tag0[TableKey[f]]
        /\ (lastSet[f].set /\ lastSet[f].values = <<Foo, Bar>> /\ lastSet[f].sep = SemiSpace)
              => tag[TableKey[f]].text = <<"F", "o", "o", ";", " ", "B", "a", "r">>

\* The title was set twice around a change of separator, the second call won, and
\* the album artist's frame still holds what the file had.
C8_Witness ==
    /\ ncalls = 3
    /\ separator = SemiSpace
    /\ tag0["TIT2"] = TextFrame(Old)
    /\ lastSet["Title"] = [set |-> TRUE, values |-> <<Foo, Bar>>, sep |-> SemiSpace]
    /\ tag["TIT2"].text = <<"F", "o", "o", ";", " ", "B", "a", "r">>
    /\ tag["TPE2"] = TextFrame(Old)
    /\ direct = {}

\* C9 (as claimed): right after set_release_date, a date that is no timestamp has
\* been answered with an error returned to the caller and the tag is as before; a
\* valid date has been stored in the release-date frame.
C9_ReleaseDateResult ==
    (lastDate.at = ncalls /\ ncalls > 0) =>
        IF ParseTimestamp(lastDate.date)[1]
        THEN /\ lastDate.result = "returned"
             /\ tag["TDRL"] = DateFrame(ParseTimestamp(lastDate.date)[2])
        ELSE /\ lastDate.result = "TagEncodingError"
             /\ tpc = "open"
             /\ tag = lastDate.before

====
